---- MODULE Spec2Model ----
(***************************************************************************)
(* ChurnFlow capture pipeline: CaptureEngine (orchestrator),               *)
(* InferenceEngine (inference client) and TrackerManager (document store). *)
(*                                                                         *)
(* Text is a sequence of tokens; a document body is a sequence of lines;   *)
(* a line is a sequence of tokens (the empty sequence is a blank line).    *)
(* Numbers of the source in [0,1] are kept in hundredths (0.1 is 10).      *)
(***************************************************************************)
EXTENDS Integers, Sequences, FiniteSets, TLC

(*************************** bounds of the model ***************************)
MaxItems == 2

\* appends made on one document, and the latest activity timestamp
MaxAppends == 2

MaxStamp == 2

\* inputs of one captureBatch() call
MaxBatch == 2

\* most append calls in flight or returned in the overlapping-capture runs
MaxWriters == 2

\* most initialize() / capture() calls in the overlapping-initialization runs
MaxInitCalls == 3

(**************************** program constants ****************************)
confidenceThreshold == 70

FallbackConfidence == 10

DefaultConfidence == 50

(****************************** JS-like values *****************************)
Undef == "<undefined>"

Num(v) == [k |-> "num", v |-> v]

NaN == [k |-> "nan", v |-> 0]

NoNum == [k |-> "undefined", v |-> 0]

\* a JSON string that does not read as a number, such as "high"
NotNumeric == [k |-> "text", v |-> 0]

\* JavaScript truthiness of a number, a non-empty string or undefined
Truthy(x) == x.k = "text" \/ (x.k = "num" /\ x.v # 0)

\* a || d on number-or-undefined values
OrElse(x, d) == IF Truthy(x) THEN x ELSE d

\* a || d on string-or-undefined values
StrOr(s, d) == IF s = Undef \/ s = "" THEN d ELSE s

Min(a, b) == IF a <= b THEN a ELSE b

Max(a, b) == IF a >= b THEN a ELSE b

\* Math.max(0, Math.min(1, x)), in hundredths
Clamp01(x) == IF x.k = "num" THEN Num(Max(0, Min(100, x.v))) ELSE NaN

\* x < t for a number-or-NaN x (a comparison with NaN is false)
LessThan(x, t) == x.k = "num" /\ x.v < t

(********************************** text ***********************************)
\* text `needle` occurs verbatim (contiguously) in `hay`
Contains(hay, needle) ==
  \E i \in 1..(Len(hay) - Len(needle) + 1) :
    SubSeq(hay, i, i + Len(needle) - 1) = needle

Texts == { <<"a">>, <<"b", "a">> }

Blank == << >>

ActionHeader == << "## Action Items" >>

ActivityHeader == << "## Activity Log" >>

(************************** TrackerManager: store **************************)
\* the crossref registry, in file order
Registry == << "proj", "inbox", "churn-system", "review" >>

RegistryTags == { Registry[i] : i \in 1..Len(Registry) }

\* the subsequence of the registry whose tags are in S (Map insertion order)
RECURSIVE LoadOrder(_, _)
LoadOrder(reg, S) ==
  IF reg = << >> THEN << >>
  ELSE IF Head(reg) \in S THEN << Head(reg) >> \o LoadOrder(Tail(reg), S)
       ELSE LoadOrder(Tail(reg), S)

SeqSet(s) == { s[i] : i \in 1..Len(s) }

\* documents on disk before the first capture
InitialFiles ==
  [ t \in RegistryTags |->
      CASE t = "proj" -> << << "# Proj" >>, Blank, ActionHeader, Blank,
                           << "## Notes" >>, Blank >>
        [] t = "inbox" -> << << "# Inbox" >>, Blank, ActivityHeader, Blank,
                            ActionHeader >>
        [] OTHER -> << << "# Doc" >>, Blank >> ]

\* lines.findIndex(line => line.trim() === sectionHeader); 0 stands for -1
findSectionIndex(lines, header) ==
  IF \E i \in 1..Len(lines) : lines[i] = header
  THEN CHOOSE i \in 1..Len(lines) :
         lines[i] = header /\ \A j \in 1..(i - 1) : lines[j] # header
  ELSE 0

Splice_overwrite(lines, pos0, ins) ==
  LET p == Min(pos0, Len(lines))
  IN SubSeq(lines, 1, p) \o ins \o SubSeq(lines, p + 2, Len(lines))

\* lines.splice(pos0, 0, ins) where pos0 is a 0-based index (clamped)
Splice(lines, pos0, ins) ==
  LET p == Min(pos0, Len(lines))
  IN SubSeq(lines, 1, p) \o ins \o SubSeq(lines, p + 1, Len(lines))

\* matter.stringify(lines.join('\n'), data): the body ends with a newline
Stringify(lines) ==
  IF Len(lines) >= 2 /\ lines[Len(lines)] = Blank
  THEN lines ELSE Append(lines, Blank)

\* body written by appendToTracker for a loaded tracker
appendToTrackerBody(lines, formattedEntry) ==
  LET actionSectionIndex == findSectionIndex(lines, ActionHeader)
  IN Stringify(
       IF actionSectionIndex # 0
       THEN Splice(lines, (actionSectionIndex - 1) + 2, << formattedEntry >>)
       ELSE lines \o << Blank, formattedEntry >>)

\* body written by appendActivityToTracker for a loaded tracker
appendActivityToTrackerBody(lines, formattedEntry) ==
  LET activitySectionIndex == findSectionIndex(lines, ActivityHeader)
      actionSectionIndex == findSectionIndex(lines, ActionHeader)
  IN Stringify(
       IF activitySectionIndex # 0
       THEN Splice(lines, (activitySectionIndex - 1) + 2, << formattedEntry >>)
       ELSE IF actionSectionIndex # 0
            THEN Splice(lines, actionSectionIndex - 1,
                        << ActivityHeader, Blank, formattedEntry, Blank >>)
            ELSE lines \o << Blank, ActivityHeader, Blank, formattedEntry >>)

(* gray-matter.  A file starts with an optional metadata block between two *)
(* fence lines; matter() loads the block as YAML and matter.stringify dumps *)
(* the loaded data again: a comment is not data, and an unquoted date is    *)
(* loaded as a Date and dumped as a full timestamp.                         *)
Fence == << "---" >>

DateTokens == { "2025-01-15" }

\* the timestamp a Date is dumped as
Timestamp(date) == date \o "T00:00:00.000Z"

\* a scalar yaml loads as a Date: a plain date or a full timestamp
IsDate(token) == \E d \in DateTokens : token = d \/ token = Timestamp(d)

DateOf(token) == CHOOSE d \in DateTokens : token = d \/ token = Timestamp(d)

IsComment(line) == Len(line) = 1 /\ line[1] = "# note"

hasMatter(lines) ==
  /\ Len(lines) >= 2
  /\ lines[1] = Fence
  /\ \E i \in 2..Len(lines) : lines[i] = Fence

matterEnd(lines) ==
  CHOOSE i \in 2..Len(lines) :
    lines[i] = Fence /\ \A j \in 2..(i - 1) : lines[j] # Fence

\* yaml load of the block: one [key, date, value] per key/value line
RECURSIVE yamlLoad(_)
yamlLoad(block) ==
  IF block = << >> THEN << >>
  ELSE IF IsComment(Head(block)) \/ Len(Head(block)) # 2 THEN yamlLoad(Tail(block))
       ELSE << [ key |-> Head(block)[1],
                 date |-> IsDate(Head(block)[2]),
                 value |-> IF IsDate(Head(block)[2]) THEN DateOf(Head(block)[2])
                           ELSE Head(block)[2] ] >> \o yamlLoad(Tail(block))

\* yaml dump of the data
yamlDump(data) ==
  [ i \in 1..Len(data) |->
      << data[i].key,
         IF data[i].date THEN Timestamp(data[i].value) ELSE data[i].value >> ]

\* matter(fileContent).data
matterData(lines) ==
  IF hasMatter(lines) THEN yamlLoad(SubSeq(lines, 2, matterEnd(lines) - 1))
  ELSE << >>

\* matter(fileContent).content, as lines
matterContent(lines) ==
  IF hasMatter(lines) THEN SubSeq(lines, matterEnd(lines) + 1, Len(lines))
  ELSE lines

\* the metadata block matter.stringify writes in front of the content
matterBlock(data) ==
  IF data = << >> THEN << >> ELSE << Fence >> \o yamlDump(data) \o << Fence >>

\* file written by appendToTracker for a loaded tracker
appendToTrackerFile(lines, formattedEntry) ==
  matterBlock(matterData(lines))
  \o appendToTrackerBody(matterContent(lines), formattedEntry)

\* file written by appendActivityToTracker for a loaded tracker
appendActivityToTrackerFile(lines, formattedEntry) ==
  matterBlock(matterData(lines))
  \o appendActivityToTrackerBody(matterContent(lines), formattedEntry)

\* how the file system answers one append: the read and the write succeed,
\* one of them fails leaving the file alone, or fs.writeFile fails after it
\* has opened (truncated) the file and written part of the new content
AppendOutcomes == { "ok", "failed", "torn" }

TornBodies(new) == { SubSeq(new, 1, k) : k \in 0..(Len(new) - 1) }

\* the bodies the document can have after an append that meant to write `new`
bodiesAfter(old, new, io) ==
  CASE io = "ok" -> { new }
    [] io = "failed" -> { old }
    [] io = "torn" -> TornBodies(new)

(************************ InferenceEngine: inference ***********************)
ItemTypes == { "action", "review", "reference", "someday", "activity" }

Priorities == { "critical", "high", "medium", "low" }

validateItemType_passThrough(itemType) == itemType

validateItemType(itemType) == IF itemType \in ItemTypes THEN itemType ELSE "review"

validatePriority(priority) == IF priority \in Priorities THEN priority ELSE "medium"

fallbackFormat_noText(text) == << "- [ ]", "#task", "due", "<date>" >>

\* `- [ ] #task ${text} <calendar> ${date}`
fallbackFormat(text) == << "- [ ]", "#task" >> \o text \o << "due", "<date>" >>

\* one element of aiResult.generatedItems after validation
parseItem(item, text) ==
  [ tracker |-> StrOr(item.tracker, "review"),
    itemType |-> validateItemType(item.itemType),
    priority |-> validatePriority(item.priority),
    content |-> IF item.content = << >> THEN fallbackFormat(text) ELSE item.content ]

\* one element of aiResult.taskCompletions after validation
parseCompletion(c) ==
  [ tracker |-> StrOr(c.tracker, "review"),
    description |-> StrOr(c.description, "Task completion detected") ]

\* Math.max(0, Math.min(1, aiResult.confidence || 0.5))
normalizedConfidenceOf(confidence) ==
  Clamp01(OrElse(confidence, Num(DefaultConfidence)))

requiresReviewFlag_serviceOnly(requiresReview, normalizedConfidence) ==
  requiresReview = "true"

\* (aiResult.requiresReview !== undefined ? aiResult.requiresReview : false)
\*   || normalizedConfidence < this.config.confidenceThreshold
requiresReviewFlag(requiresReview, normalizedConfidence) ==
  (requiresReview = "true")
  \/ LessThan(normalizedConfidence, confidenceThreshold)

parseInferenceResult(aiResult, text) ==
  LET normalizedConfidence == normalizedConfidenceOf(aiResult.confidence)
      parsed == IF aiResult.hasItems
                THEN [ i \in 1..Len(aiResult.generatedItems) |->
                         parseItem(aiResult.generatedItems[i], text) ]
                ELSE << >>
      generatedItems ==
        IF Len(parsed) = 0
        THEN << [ tracker |-> StrOr(aiResult.primaryTracker, "review"),
                  itemType |-> "review",
                  priority |-> "medium",
                  content |-> fallbackFormat(text) ] >>
        ELSE parsed
  IN [ primaryTracker |-> StrOr(aiResult.primaryTracker, "review"),
       confidence |-> normalizedConfidence,
       generatedItems |-> generatedItems,
       taskCompletions |-> [ i \in 1..Len(aiResult.taskCompletions) |->
                               parseCompletion(aiResult.taskCompletions[i]) ],
       requiresReview |-> requiresReviewFlag(aiResult.requiresReview,
                                             normalizedConfidence) ]

fallbackInference_defaultConfidence(text) ==
  [ primaryTracker |-> "review",
    confidence |-> Num(DefaultConfidence),
    generatedItems |-> << [ tracker |-> "review",
                            itemType |-> "review",
                            priority |-> "medium",
                            content |-> fallbackFormat(text) ] >>,
    taskCompletions |-> << >>,
    requiresReview |-> TRUE ]

fallbackInference(text) ==
  [ primaryTracker |-> "review",
    confidence |-> Num(FallbackConfidence),
    generatedItems |-> << [ tracker |-> "review",
                            itemType |-> "review",
                            priority |-> "medium",
                            content |-> fallbackFormat(text) ] >>,
    taskCompletions |-> << >>,
    requiresReview |-> TRUE ]

(* What the external service can answer.  The rendered content of an item  *)
(* is the service's own wording; it need not repeat the captured text.     *)
RawItems ==
  { [ tracker |-> "proj", itemType |-> "action", priority |-> "high",
      content |-> << "- [ ]", "#task", "fix" >> ],
    [ tracker |-> "proj", itemType |-> "activity", priority |-> "bogus",
      content |-> << "-", "[ts]", "did" >> ],
    [ tracker |-> "ghost", itemType |-> "bogus", priority |-> Undef,
      content |-> << >> ] }

RawItemLists == UNION { [ 1..n -> RawItems ] : n \in 0..MaxItems }

RawConfidences == { Num(0), Num(30), Num(95) }

RawCompletions ==
  { << >>, << [ tracker |-> "proj", description |-> Undef ] >> }

RawResponses ==
  [ primaryTracker : { "proj" },
    confidence : RawConfidences,
    hasItems : { TRUE },
    generatedItems : RawItemLists,
    taskCompletions : RawCompletions,
    requiresReview : { "true", "false" } ]

NoPayload ==
  [ primaryTracker |-> Undef, confidence |-> NoNum, hasItems |-> FALSE,
    generatedItems |-> << >>, taskCompletions |-> << >>,
    requiresReview |-> "undefined" ]

\* the request has not been answered
NoReply == [ answered |-> FALSE, failed |-> FALSE, payload |-> NoPayload ]

\* the request rejected, or its content is not JSON, or it parsed to null
FailedReply == [ answered |-> TRUE, failed |-> TRUE, payload |-> NoPayload ]

\* the request resolved and its content parsed to the object r
JsonReply(r) == [ answered |-> TRUE, failed |-> FALSE, payload |-> r ]

\* body of inferCapture's try/catch: parse the reply, fall back on any error
inferCaptureResult(reply, text) ==
  IF reply.failed THEN fallbackInference(text)
  ELSE parseInferenceResult(reply.payload, text)

\* toISOString() of the capture timestamp throws on an invalid Date
TimestampKinds == { "absent", "valid", "invalid" }

InvalidTimeMessage == "Invalid time value"

\* inferCapture throws before its try block when the prompt cannot be built
inferCaptureThrows(in) == in.timestamp = "invalid"

(***************************** CaptureEngine *******************************)
VARIABLES
  initialized,   \* CaptureEngine.initialized
  initRejected,  \* the last initialize()/refresh() call rejected
  trackers,      \* TrackerManager.trackers: loaded tags, in insertion order
  files,         \* body lines of every tracker document on disk
  pc,            \* position of the capture() call in flight
  input,         \* the normalized CaptureInput
  inference,     \* result of inferCapture
  inferStatus,   \* how inferCapture ended: "ok", "fallback" or "threw"
  idx,           \* loop index (placement pass / emergency loop / append calls)
  itemResults,   \* itemResults built by the placement pass
  attempts,      \* appends attempted by the capture in flight, in order
  result,        \* the CaptureResult capture() resolved to
  thrown,        \* message of the error caught by capture()'s catch
  serviceReply,  \* what the inference service answered to the last request
  call,          \* the last call made on the TrackerManager
  cache,         \* Tracker.content held in memory for every tag
  batch,         \* the captureBatch() call in flight: inputs, position, results
  writers,       \* append calls in flight between their read and their write
  inits          \* CaptureEngine.initialize() calls: those in flight, and all attempts

vars == << initialized, initRejected, trackers, files, pc, input, inference,
           inferStatus, idx, itemResults, attempts, result, thrown,
           serviceReply, call, cache, batch, writers, inits >>

\* state of the calls that are not running in the pipeline of one capture()
aux == << batch, writers, inits >>

NoInput == [ text |-> << >>, inputType |-> "text", timestamp |-> "absent" ]

NoInference ==
  [ primaryTracker |-> Undef, confidence |-> NoNum, generatedItems |-> << >>,
    taskCompletions |-> << >>, requiresReview |-> FALSE ]

NoResult ==
  [ success |-> FALSE, primaryTracker |-> Undef, confidence |-> NoNum,
    itemResults |-> << >>, completedTasks |-> << >>, requiresReview |-> FALSE,
    error |-> Undef ]

Loaded(tag) == tag \in SeqSet(trackers)

\* value returned by appendToTracker / appendActivityToTracker: false for a
\* tag that is not loaded or when reading or writing the document fails
appendReturns(tag, io) == Loaded(tag) /\ io = "ok"

\* the documents after an append on `tag` that meant to write `body`
filesAfterAppend(tag, body, io) ==
  IF Loaded(tag)
  THEN \E b \in bodiesAfter(files[tag], body, io) :
         files' = [ files EXCEPT ![tag] = b ]
  ELSE files' = files

\* nothing is loaded in memory
NoCache == [ t \in RegistryTags |-> << >> ]

NoBatch == [ inputs |-> << >>, k |-> 1, results |-> << >>, outcomes |-> << >> ]

NoWriters == << >>

NoInits == [ running |-> {}, attempts |-> << >> ]

NoCall ==
  [ op |-> "none", itemType |-> Undef, tag |-> Undef, entry |-> << >>,
    before |-> << >>, returned |-> FALSE ]

\* FormattingUtils.formatEntry(itemType, description, { confidence })
formatEntry(itemType, description, confidence) ==
  << IF itemType = "review" THEN "- [ ] #review" ELSE "- [ ] #task" >>
  \o description
  \o << "confidence",
        IF confidence.k = "num" THEN ToString(confidence.v) ELSE "NaN" >>

formatReviewEntry_noText(in, inf) ==
  formatEntry("review",
              << "REVIEW NEEDED:" >> \o << "(AI suggested:", "undefined", ")" >>,
              OrElse(inf.confidence, Num(FallbackConfidence)))

formatReviewEntry(in, inf) ==
  LET confidence == OrElse(inf.confidence, Num(FallbackConfidence))
      description == << "REVIEW NEEDED:" >> \o in.text
      enhancedDescription == description \o << "(AI suggested:", "undefined", ")" >>
  IN formatEntry("review", enhancedDescription, confidence)

emergencyEntry_noText(in, message) ==
  << "- [ ]", "EMERGENCY CAPTURE", "<timestamp>" >> \o << "(Error:", message, ")" >>

emergencyEntry(in, message) ==
  << "- [ ]", "EMERGENCY CAPTURE", "<timestamp>" >> \o in.text
  \o << "(Error:", message, ")" >>

\* getTracker('review') || getTracker('inbox') || getTracker('churn-system')
ReviewCandidates == << "review", "inbox", "churn-system" >>

reviewTracker ==
  IF \E i \in 1..Len(ReviewCandidates) : Loaded(ReviewCandidates[i])
  THEN LET i == CHOOSE i \in 1..Len(ReviewCandidates) :
                  /\ Loaded(ReviewCandidates[i])
                  /\ \A j \in 1..(i - 1) : ~Loaded(ReviewCandidates[j])
       IN ReviewCandidates[i]
  ELSE Undef

reviewGate_confidenceOnly(inf) == LessThan(inf.confidence, confidenceThreshold)

\* if (inference.requiresReview) return await this.routeToReview(...)
reviewGate(inf) == inf.requiresReview

getTrackersByContext_reversed(loaded) ==
  [ i \in 1..Len(loaded) |-> loaded[Len(loaded) + 1 - i] ]

\* getTrackersByContext(): Array.from(this.trackers.values())
getTrackersByContext(loaded) == loaded

overallSuccess_every(results) == \A i \in 1..Len(results) : results[i].success

\* itemResults.some(result => result.success)
overallSuccess(results) == \E i \in 1..Len(results) : results[i].success

resolveResult_noCompletions(inf, results) ==
  [ success |-> overallSuccess(results),
    primaryTracker |-> inf.primaryTracker,
    confidence |-> inf.confidence,
    itemResults |-> results,
    completedTasks |-> << >>,
    requiresReview |-> FALSE,
    error |-> Undef ]

\* the CaptureResult of the placement path; completedTasks holds every
\* completion of inference.taskCompletions, pushed in order
resolveResult(inf, results) ==
  [ success |-> overallSuccess(results),
    primaryTracker |-> inf.primaryTracker,
    confidence |-> inf.confidence,
    itemResults |-> results,
    completedTasks |-> inf.taskCompletions,
    requiresReview |-> FALSE,
    error |-> Undef ]

routeToReviewResult(inf, reviewEntry, success) ==
  [ success |-> success,
    primaryTracker |-> "review",
    confidence |-> OrElse(inf.confidence, Num(FallbackConfidence)),
    itemResults |-> << [ success |-> success, tracker |-> "review",
                         itemType |-> "review", formattedEntry |-> reviewEntry,
                         error |-> IF success THEN Undef
                                   ELSE "Failed to save to review tracker" ] >>,
    completedTasks |-> << >>,
    requiresReview |-> TRUE,
    error |-> Undef ]

emergencySaved(tag, entry) ==
  [ success |-> TRUE,
    primaryTracker |-> tag,
    confidence |-> Num(FallbackConfidence),
    itemResults |-> << [ success |-> TRUE, tracker |-> tag, itemType |-> "action",
                         formattedEntry |-> entry, error |-> Undef ] >>,
    completedTasks |-> << >>,
    requiresReview |-> TRUE,
    error |-> Undef ]

emergencyFailed_noError(entry, message) ==
  [ success |-> FALSE,
    primaryTracker |-> "none",
    confidence |-> Num(0),
    itemResults |-> << [ success |-> FALSE, tracker |-> "none", itemType |-> "action",
                         formattedEntry |-> entry, error |-> Undef ] >>,
    completedTasks |-> << >>,
    requiresReview |-> TRUE,
    error |-> Undef ]

emergencyFailed(entry, message) ==
  [ success |-> FALSE,
    primaryTracker |-> "none",
    confidence |-> Num(0),
    itemResults |-> << [ success |-> FALSE, tracker |-> "none", itemType |-> "action",
                         formattedEntry |-> entry,
                         error |-> "Complete capture failure: " \o message ] >>,
    completedTasks |-> << >>,
    requiresReview |-> TRUE,
    error |-> "Complete capture failure: " \o message ]

\* no capture() call is in flight or has returned a result
Idle == pc \in { "idle", "threw" }

Init ==
  /\ initialized = FALSE
  /\ initRejected = FALSE
  /\ trackers = << >>
  /\ files = InitialFiles
  /\ pc = "idle"
  /\ input = NoInput
  /\ inference = NoInference
  /\ inferStatus = "none"
  /\ idx = 1
  /\ itemResults = << >>
  /\ attempts = << >>
  /\ result = NoResult
  /\ thrown = Undef
  /\ serviceReply = NoReply
  /\ call = NoCall
  /\ cache = NoCache
  /\ batch = NoBatch
  /\ writers = NoWriters
  /\ inits = NoInits

\* what a caller can pass to capture(): a string or a CaptureInput
CaptureInputs ==
  { [ text |-> t, inputType |-> "text", timestamp |-> "absent" ] : t \in Texts }
  \cup [ text : Texts, inputType : { "voice" }, timestamp : { "valid", "invalid" } ]

\* TrackerManager.initialize(): loadCrossref then loadTrackers.  `ok` is
\* whether the registry could be read, S the active entries whose document loads.
trackersAfterLoad(ok, S) == IF ok THEN LoadOrder(Registry, S) ELSE trackers

\* the Tracker objects after the same call: content as parsed at load time
cacheAfterLoad(ok, S) ==
  IF ok THEN [ t \in RegistryTags |->
                IF t \in S THEN matterContent(files[t]) ELSE << >> ]
  ELSE cache

\* CaptureEngine.initialize() called by the application
Initialize ==
  /\ Idle
  /\ ~initialized
  /\ \E ok \in BOOLEAN, S \in SUBSET RegistryTags :
       /\ ok \/ S = {}
       /\ initialized' = ok
       /\ initRejected' = ~ok
       /\ trackers' = trackersAfterLoad(ok, S)
       /\ cache' = cacheAfterLoad(ok, S)
  /\ UNCHANGED << aux, files, pc, input, inference, inferStatus, idx, itemResults,
                  attempts, result, thrown, serviceReply, call >>

\* CaptureEngine.refresh() called by the application
Refresh ==
  /\ Idle
  /\ \E ok \in BOOLEAN, S \in SUBSET RegistryTags :
       /\ ok \/ S = {}
       /\ initRejected' = ~ok
       /\ trackers' = trackersAfterLoad(ok, S)
       /\ cache' = cacheAfterLoad(ok, S)
  /\ UNCHANGED << aux, initialized, files, pc, input, inference, inferStatus, idx,
                  itemResults, attempts, result, thrown, serviceReply, call >>

\* capture(in) up to its first suspension: lazy initialize, normalize;
\* Loadable holds the sets of documents a lazy initialization may load
CaptureBegin(in, Loadable) ==
  /\ \E ok \in BOOLEAN, S \in Loadable \cup { {} } :
       /\ ok \/ S = {}
       /\ initialized => (ok /\ S = {})
       /\ input' = in
       /\ IF initialized
          THEN /\ pc' = "infer"
               /\ UNCHANGED << initialized, initRejected, trackers, cache >>
          ELSE /\ initialized' = ok
               /\ initRejected' = ~ok
               /\ trackers' = trackersAfterLoad(ok, S)
               /\ cache' = cacheAfterLoad(ok, S)
               /\ pc' = IF ok THEN "infer" ELSE "threw"
  /\ inference' = NoInference
  /\ inferStatus' = "none"
  /\ idx' = 1
  /\ itemResults' = << >>
  /\ attempts' = << >>
  /\ result' = NoResult
  /\ thrown' = Undef
  /\ serviceReply' = NoReply
  /\ UNCHANGED << aux, files, call >>

\* capture(input) called by the application
CaptureStart ==
  /\ Idle
  /\ \E in \in CaptureInputs : CaptureBegin(in, SUBSET RegistryTags)

\* await inferCapture(captureInput), then the review gate and completion
\* pass; the service answers with one of `Responses` or the request fails
InferFrom(Responses) ==
  /\ pc = "infer"
  /\ IF inferCaptureThrows(input)
     THEN /\ thrown' = InvalidTimeMessage
          /\ inferStatus' = "threw"
          /\ pc' = "emergency"
          /\ UNCHANGED << inference, serviceReply >>
     ELSE /\ \E reply \in { FailedReply } \cup { JsonReply(r) : r \in Responses } :
               /\ serviceReply' = reply
               /\ inference' = inferCaptureResult(reply, input.text)
               /\ inferStatus' = IF reply.failed THEN "fallback" ELSE "ok"
          /\ pc' = IF reviewGate(inference') THEN "review" ELSE "place"
          /\ UNCHANGED thrown
  /\ idx' = 1
  /\ UNCHANGED << aux, cache, initialized, initRejected, trackers, files, input,
                  itemResults, attempts, result, call >>

\* one iteration of the placement loop; the last one also resolves
Place ==
  /\ pc = "place"
  /\ idx <= Len(inference.generatedItems)
  /\ LET item == inference.generatedItems[idx]
     IN \E io \in AppendOutcomes :
          LET success == appendReturns(item.tracker, io)
              body == IF item.itemType = "activity"
                      THEN appendActivityToTrackerFile(files[item.tracker], item.content)
                      ELSE appendToTrackerFile(files[item.tracker], item.content)
              results == Append(itemResults,
                           [ success |-> success, tracker |-> item.tracker,
                             itemType |-> item.itemType,
                             formattedEntry |-> item.content,
                             error |-> IF success THEN Undef
                                       ELSE "Failed to write to " \o item.tracker ])
          IN /\ Loaded(item.tracker) \/ io = "ok"
             /\ filesAfterAppend(item.tracker, body, io)
             /\ attempts' = Append(attempts,
                              [ tag |-> item.tracker, entry |-> item.content,
                                ok |-> success, phase |-> "place" ])
             /\ itemResults' = results
             /\ idx' = idx + 1
             /\ IF idx = Len(inference.generatedItems)
                THEN /\ result' = resolveResult(inference, results)
                     /\ pc' = "done"
                ELSE UNCHANGED << result, pc >>
  /\ UNCHANGED << aux, cache, initialized, initRejected, trackers, input, inference,
                  inferStatus, thrown, serviceReply, call >>

\* routeToReview: formatReviewEntry, appendToReviewTracker, result
RouteToReview ==
  /\ pc = "review"
  /\ LET reviewEntry == formatReviewEntry(input, inference)
         target == reviewTracker
     IN \E io \in AppendOutcomes :
          LET success == target # Undef /\ appendReturns(target, io)
          IN /\ target # Undef \/ io = "ok"
             /\ IF target # Undef
                THEN filesAfterAppend(target,
                       appendToTrackerFile(files[target], reviewEntry), io)
                ELSE files' = files
             /\ attempts' = IF target # Undef
                            THEN Append(attempts,
                                   [ tag |-> target, entry |-> reviewEntry,
                                     ok |-> success, phase |-> "review" ])
                            ELSE attempts
             /\ result' = routeToReviewResult(inference, reviewEntry, success)
  /\ pc' = "done"
  /\ UNCHANGED << aux, cache, initialized, initRejected, trackers, input, inference,
                  inferStatus, idx, itemResults, thrown, serviceReply, call >>

\* one iteration of emergencyCapture's loop over the loaded trackers
Emergency ==
  /\ pc = "emergency"
  /\ idx <= Len(getTrackersByContext(trackers))
  /\ LET tag == getTrackersByContext(trackers)[idx]
         entry == emergencyEntry(input, thrown)
     IN \E io \in AppendOutcomes :
          LET success == appendReturns(tag, io) IN
          /\ filesAfterAppend(tag, appendToTrackerFile(files[tag], entry), io)
          /\ attempts' = Append(attempts,
                           [ tag |-> tag, entry |-> entry, ok |-> success,
                             phase |-> "emergency" ])
          /\ IF success
             THEN /\ result' = emergencySaved(tag, entry)
                  /\ pc' = "done"
                  /\ UNCHANGED idx
             ELSE /\ idx' = idx + 1
                  /\ UNCHANGED << result, pc >>
  /\ UNCHANGED << aux, cache, initialized, initRejected, trackers, input, inference,
                  inferStatus, itemResults, thrown, serviceReply, call >>

\* emergencyCapture after its loop found no tracker accepting the entry
EmergencyFail ==
  /\ pc = "emergency"
  /\ idx > Len(getTrackersByContext(trackers))
  /\ result' = emergencyFailed(emergencyEntry(input, thrown), thrown)
  /\ pc' = "done"
  /\ UNCHANGED << aux, cache, initialized, initRejected, trackers, files, input, inference,
                  inferStatus, idx, itemResults, attempts, thrown, serviceReply,
                  call >>

Infer == InferFrom(RawResponses)

Next ==
  \/ Initialize
  \/ Refresh
  \/ CaptureStart
  \/ Infer
  \/ Place
  \/ RouteToReview
  \/ Emergency
  \/ EmergencyFail

Spec == Init /\ [][Next]_vars

\* the inference call and every file operation eventually return: a step
\* of the pipeline that can be taken is eventually taken
PipelineFairness ==
  /\ WF_vars(Infer)
  /\ WF_vars(Place)
  /\ WF_vars(RouteToReview)
  /\ WF_vars(Emergency)
  /\ WF_vars(EmergencyFail)

SpecLive == Spec /\ PipelineFairness

(******************* the inference client on its own **********************)
\* what the service can answer when nothing is assumed about it: fields
\* missing, a confidence that is zero, negative, above 1 or not a number
WideConfidences ==
  { NoNum, Num(0), Num(-20), Num(50), Num(70), Num(150), NotNumeric }

WideResponses ==
  { r \in [ primaryTracker : { "proj", Undef },
            confidence : WideConfidences,
            hasItems : BOOLEAN,
            generatedItems : RawItemLists,
            taskCompletions : RawCompletions,
            requiresReview : { "true", "false", "undefined" } ] :
      r.hasItems \/ r.generatedItems = << >> }

\* an initialized engine about to call inferCapture(captureInput)
InitInfer ==
  /\ initialized = TRUE
  /\ initRejected = FALSE
  /\ trackers = Registry
  /\ files = InitialFiles
  /\ pc = "infer"
  /\ input \in CaptureInputs
  /\ inference = NoInference
  /\ inferStatus = "none"
  /\ idx = 1
  /\ itemResults = << >>
  /\ attempts = << >>
  /\ result = NoResult
  /\ thrown = Undef
  /\ serviceReply = NoReply
  /\ call = NoCall
  /\ cache = [ t \in RegistryTags |-> matterContent(InitialFiles[t]) ]
  /\ batch = NoBatch
  /\ writers = NoWriters
  /\ inits = NoInits

InferCapture == InferFrom(WideResponses)

NextInfer == InferCapture

SpecInfer == InitInfer /\ [][NextInfer]_vars

(******************************* properties ********************************)
Returned == pc = "done"

PathPlace == inferStatus \in { "ok", "fallback" } /\ ~inference.requiresReview

PathReview == inferStatus \in { "ok", "fallback" } /\ inference.requiresReview

PathEmergency == inferStatus = "threw"

\* some item of the returned result embeds the captured text verbatim
ItemEmbedsText ==
  \E i \in 1..Len(result.itemResults) :
    Contains(result.itemResults[i].formattedEntry, input.text)

\* some line of some tracker document embeds the captured text verbatim
FileEmbedsText ==
  \E t \in RegistryTags : \E l \in 1..Len(files[t]) :
    Contains(files[t][l], input.text)

IsLineOfSomeFile(entry) ==
  \E t \in RegistryTags : \E l \in 1..Len(files[t]) : files[t][l] = entry

SomeAttemptOk == \E i \in 1..Len(attempts) : attempts[i].ok

\* the review candidates that are loaded, in candidate order
LoadedCandidates == LoadOrder(ReviewCandidates, SeqSet(trackers))

\* C1 (as claimed): capture() resolves to a CaptureResult and never throws or
\* rejects, whatever fails, a registry unreadable at lazy initialization included.
C1_CaptureNeverThrows == pc # "threw"

\* C2 (as claimed): on every path on which capture() returns, the raw text is
\* embedded in an entry written to a tracker document or in the formattedEntry
\* of an item of the result.
C2_TextNeverLostAnyPath == Returned => (FileEmbedsText \/ ItemEmbedsText)

\* C2 (amended): when capture() returns through Review Routing or Emergency
\* Capture the raw text is embedded in the returned item's formattedEntry, and
\* if the result reports success that entry is a line of a tracker document; on
\* the placement path each item's formattedEntry is the item's rendered content.
C2_TextKeptOnFallbackPaths ==
  /\ (Returned /\ (PathReview \/ PathEmergency)) =>
       /\ Len(result.itemResults) = 1
       /\ Contains(result.itemResults[1].formattedEntry, input.text)
       /\ result.success => IsLineOfSomeFile(result.itemResults[1].formattedEntry)
  /\ (Returned /\ PathPlace) =>
       /\ Len(result.itemResults) = Len(inference.generatedItems)
       /\ \A i \in 1..Len(result.itemResults) :
            result.itemResults[i].formattedEntry = inference.generatedItems[i].content

C2_Witness ==
  Returned /\ PathReview /\ result.success /\ input.text = << "b", "a" >>

\* C3 (as claimed): capture() returns success=false only when Emergency Capture
\* attempted every loaded tracker and none accepted the write.
C3_FailureOnlyFromEmergency ==
  (Returned /\ ~result.success) =>
     /\ PathEmergency
     /\ Len(attempts) = Len(trackers)
     /\ \A i \in 1..Len(attempts) : attempts[i].tag = trackers[i] /\ ~attempts[i].ok

\* C4: if inference failed (fallback result or an exception escaping the
\* client), the returned result has an item whose formattedEntry embeds the
\* captured text verbatim.
C4_FailedInferenceKeepsText ==
  (Returned /\ inferStatus \in { "fallback", "threw" }) => ItemEmbedsText

C4_Witness ==
  Returned /\ inferStatus = "fallback" /\ ~result.success
  /\ input.text = << "b", "a" >>

\* C5: if inference throws and no loaded tracker accepts the emergency write,
\* capture() returns success=false, a non-empty error, requiresReview=true and
\* an item whose formattedEntry embeds the captured text.
C5_TotalFailureResult ==
  (Returned /\ PathEmergency /\ ~SomeAttemptOk) =>
     /\ result.success = FALSE
     /\ result.error # Undef /\ result.error # ""
     /\ result.requiresReview = TRUE
     /\ ItemEmbedsText

C5_Witness ==
  Returned /\ PathEmergency /\ ~SomeAttemptOk /\ Len(trackers) = 4
  /\ Len(attempts) = 4

\* C6: when inference throws, Emergency Capture tries the loaded trackers in
\* registry order, one append each, and stops at the first success: the result
\* then has success=true, primaryTracker = the accepting tracker,
\* requiresReview=true, confidence 0.1, and no later tracker is written.
C6_EmergencyOrder ==
  PathEmergency =>
     /\ Len(attempts) <= Len(trackers)
     /\ trackers = LoadOrder(Registry, SeqSet(trackers))
     /\ \A i \in 1..Len(attempts) :
          /\ attempts[i].tag = trackers[i]
          /\ attempts[i].phase = "emergency"
          /\ attempts[i].ok =>
               /\ i = Len(attempts)
               /\ Returned
               /\ result.success = TRUE
               /\ result.primaryTracker = trackers[i]
               /\ result.requiresReview = TRUE
               /\ result.confidence = Num(10)
     /\ \A j \in 1..Len(trackers) :
          j > Len(attempts) => files[trackers[j]] = InitialFiles[trackers[j]]
     /\ (Returned /\ ~SomeAttemptOk) => Len(attempts) = Len(trackers)

C6_Witness ==
  Returned /\ PathEmergency /\ Len(trackers) = 4 /\ Len(attempts) = 3
  /\ attempts[3].ok

\* C7: whenever the inference result has requiresReview = true, no generated
\* item is appended to its target tracker; the only write attempted is the one
\* review entry, and the returned result has requiresReview = true.
C7_ReviewGate ==
  PathReview =>
     /\ itemResults = << >>
     /\ Len(attempts) <= 1
     /\ \A i \in 1..Len(attempts) :
          /\ attempts[i].phase = "review"
          /\ attempts[i].entry = formatReviewEntry(input, inference)
     /\ \A t \in RegistryTags :
          files[t] # InitialFiles[t] =>
             /\ Len(attempts) = 1 /\ attempts[1].tag = t
             /\ attempts[1].ok =>
                  files[t] = appendToTrackerBody(InitialFiles[t],
                                                 formatReviewEntry(input, inference))
     /\ Returned => result.requiresReview = TRUE

C7_Witness ==
  Returned /\ PathReview /\ inferStatus = "ok"
  /\ Len(inference.generatedItems) = 2
  /\ inference.generatedItems[1].tracker = "proj" /\ Loaded("proj")
  /\ Len(attempts) = 1 /\ attempts[1].ok

\* C8 (as claimed): Review Routing attempts the append on review, then inbox,
\* then churn-system, moving on when a candidate is not loaded or its write
\* fails, stopping at the first success; success iff one of them accepted.
C8_ReviewRoutingFallsThrough ==
  (Returned /\ PathReview) =>
     /\ Len(attempts) <= Len(LoadedCandidates)
     /\ \A i \in 1..Len(attempts) :
          /\ attempts[i].tag = LoadedCandidates[i]
          /\ attempts[i].ok => i = Len(attempts)
     /\ ~SomeAttemptOk => Len(attempts) = Len(LoadedCandidates)
     /\ result.success = SomeAttemptOk

\* C9 (as claimed): when requiresReview is false and every generated item
\* fails placement, capture() escalates to Review Routing instead of returning
\* the failed placement result.
C9_AllFailedEscalates ==
  (Returned /\ PathPlace /\ ~SomeAttemptOk) =>
     /\ result.requiresReview = TRUE
     /\ result.primaryTracker = "review"
     /\ ItemEmbedsText

\* C10: on the placement path an append is attempted for every item in list
\* order whatever failed before, itemResults has one entry per item carrying
\* that item's own outcome, and the result succeeds if any append succeeded.
C10_PlacementPass ==
  PathPlace =>
     /\ Len(attempts) = Len(itemResults)
     /\ Len(attempts) <= Len(inference.generatedItems)
     /\ \A i \in 1..Len(attempts) :
          /\ attempts[i].phase = "place"
          /\ attempts[i].tag = inference.generatedItems[i].tracker
          /\ attempts[i].entry = inference.generatedItems[i].content
          /\ itemResults[i].success = attempts[i].ok
          /\ itemResults[i].tracker = inference.generatedItems[i].tracker
     /\ Returned =>
          /\ Len(attempts) = Len(inference.generatedItems)
          /\ result.itemResults = itemResults
          /\ SomeAttemptOk => result.success = TRUE
          /\ result.success => SomeAttemptOk

C10_Witness ==
  Returned /\ PathPlace /\ Len(inference.generatedItems) = 2
  /\ ~itemResults[1].success /\ itemResults[2].success

(***************************** captureBatch ********************************)
\* message of the error loadCrossref throws, which capture() lets through
InitErrorMessage == "Cannot initialize without crossref data"

BatchInputs ==
  { [ text |-> << "a" >>, inputType |-> "text", timestamp |-> "absent" ],
    [ text |-> << "b", "a" >>, inputType |-> "voice", timestamp |-> "invalid" ] }

BatchInputLists == UNION { [ 1..n -> BatchInputs ] : n \in 0..MaxBatch }

\* the service, when it answers, is sure of one action item for proj
BatchResponses ==
  { [ primaryTracker |-> "proj", confidence |-> Num(95), hasItems |-> TRUE,
      generatedItems |-> << [ tracker |-> "proj", itemType |-> "action",
                              priority |-> "high",
                              content |-> << "- [ ]", "#task", "fix" >> ] >>,
      taskCompletions |-> << >>, requiresReview |-> "false" ] }

BatchLoadable == { { "proj" }, { "proj", "inbox" } }

batchFailure_noMessage(in, message) ==
  [ success |-> FALSE,
    primaryTracker |-> "none",
    confidence |-> Num(0),
    itemResults |-> << [ success |-> FALSE, tracker |-> "none", itemType |-> "review",
                         formattedEntry |-> in.text, error |-> Undef ] >>,
    completedTasks |-> << >>,
    requiresReview |-> TRUE,
    error |-> Undef ]

\* the entry captureBatch's catch pushes for an input whose capture rejected
batchFailure(in, message) ==
  [ success |-> FALSE,
    primaryTracker |-> "none",
    confidence |-> Num(0),
    itemResults |-> << [ success |-> FALSE, tracker |-> "none", itemType |-> "review",
                         formattedEntry |-> in.text, error |-> message ] >>,
    completedTasks |-> << >>,
    requiresReview |-> TRUE,
    error |-> message ]

InitBatch == Init

\* captureBatch(inputs) called on a new engine: results = []
BatchStart ==
  /\ pc = "idle"
  /\ batch = NoBatch
  /\ \E inputs \in BatchInputLists :
       batch' = [ inputs |-> inputs, k |-> 1, results |-> << >>,
                  outcomes |-> << >> ]
  /\ pc' = "batch"
  /\ UNCHANGED << initialized, initRejected, trackers, files, input, inference,
                  inferStatus, idx, itemResults, attempts, result, thrown,
                  serviceReply, call, cache, writers, inits >>

\* for (const input of inputs) { try { await this.capture(input) ...
BatchCapture ==
  /\ pc = "batch"
  /\ batch.k <= Len(batch.inputs)
  /\ CaptureBegin(batch.inputs[batch.k], BatchLoadable)

BatchInfer == InferFrom(BatchResponses)

\* results.push(result), or the catch's results.push({ success: false, ... })
BatchPush ==
  /\ pc \in { "done", "threw" }
  /\ batch.k <= Len(batch.inputs)
  /\ batch' = [ batch EXCEPT
                  !.results = Append(@, IF pc = "done" THEN result
                                        ELSE batchFailure(batch.inputs[batch.k],
                                                          InitErrorMessage)),
                  !.outcomes = Append(@, [ input |-> input,
                                           rejected |-> pc = "threw",
                                           inferStatus |-> inferStatus,
                                           result |-> result ]),
                  !.k = @ + 1 ]
  /\ pc' = "batch"
  /\ UNCHANGED << initialized, initRejected, trackers, files, input, inference,
                  inferStatus, idx, itemResults, attempts, result, thrown,
                  serviceReply, call, cache, writers, inits >>

\* return results
BatchReturn ==
  /\ pc = "batch"
  /\ batch.k > Len(batch.inputs)
  /\ pc' = "batchdone"
  /\ UNCHANGED << initialized, initRejected, trackers, files, input, inference,
                  inferStatus, idx, itemResults, attempts, result, thrown,
                  serviceReply, call, cache, batch, writers, inits >>

NextBatch ==
  \/ BatchStart
  \/ BatchCapture
  \/ BatchInfer
  \/ Place
  \/ RouteToReview
  \/ Emergency
  \/ EmergencyFail
  \/ BatchPush
  \/ BatchReturn

SpecBatch == InitBatch /\ [][NextBatch]_vars

(******************** loading the trackers on its own **********************)
\* the registry file as it can be found on disk: every entry active or not
Crossrefs ==
  { [ i \in 1..Len(Registry) |->
        [ tag |-> Registry[i], active |-> Registry[i] \in A ] ] :
      A \in { RegistryTags, { "inbox", "review" },
               { "proj", "churn-system" }, {} } }

ActiveTags(crossref) ==
  { crossref[i].tag : i \in { j \in 1..Len(crossref) : crossref[j].active } }

loadTrackers_noClear(old, crossref, readable) ==
  old \o LoadOrder([ i \in 1..Len(crossref) |-> crossref[i].tag ],
                   (ActiveTags(crossref) \cap readable) \ SeqSet(old))

\* loadTrackers(): this.trackers.clear(), then one set() per active entry
\* of the registry whose document could be read and parsed
loadTrackers(old, crossref, readable) ==
  LoadOrder([ i \in 1..Len(crossref) |-> crossref[i].tag ],
            ActiveTags(crossref) \cap readable)

NoLoad ==
  [ op |-> "none", registryOk |-> FALSE, crossref |-> << >>, readable |-> {},
    before |-> << >>, rejected |-> FALSE ]

InitLoad ==
  /\ initialized = FALSE
  /\ initRejected = FALSE
  /\ trackers = << >>
  /\ files = InitialFiles
  /\ pc = "idle"
  /\ input = NoInput
  /\ inference = NoInference
  /\ inferStatus = "none"
  /\ idx = 1
  /\ itemResults = << >>
  /\ attempts = << >>
  /\ result = NoResult
  /\ thrown = Undef
  /\ serviceReply = NoReply
  /\ call = NoLoad
  /\ cache = NoCache
  /\ batch = NoBatch
  /\ writers = NoWriters
  /\ inits = NoInits

\* TrackerManager.initialize(): await loadCrossref(); await loadTrackers()
LoadCall(op) ==
  \E registryOk \in BOOLEAN, crossref \in Crossrefs,
     readable \in SUBSET RegistryTags :
    /\ registryOk \/ (crossref = (CHOOSE c \in Crossrefs : TRUE) /\ readable = {})
    /\ trackers' = IF registryOk THEN loadTrackers(trackers, crossref, readable)
                   ELSE trackers
    /\ cache' = IF registryOk
                THEN [ t \in RegistryTags |->
                         IF t \in SeqSet(trackers') THEN matterContent(files[t])
                         ELSE << >> ]
                ELSE cache
    /\ call' = [ op |-> op, registryOk |-> registryOk, crossref |-> crossref,
                 readable |-> readable, before |-> trackers,
                 rejected |-> ~registryOk ]
    /\ UNCHANGED << initialized, initRejected, files, pc, input, inference,
                    inferStatus, idx, itemResults, attempts, result, thrown,
                    serviceReply, batch, writers, inits >>

TrackerManagerInitialize == LoadCall("initialize")

\* TrackerManager.refresh(): await this.initialize()
TrackerManagerRefresh == LoadCall("refresh")

NextLoad == TrackerManagerInitialize \/ TrackerManagerRefresh

SpecLoad == InitLoad /\ [][NextLoad]_vars

(********************* the document store on its own ***********************)
ReferencesHeader == << "## References" >>

\* `[${timestamp}]` of an activity entry, and the time it stands for
Stamp(n) == "[" \o ToString(n) \o "]"

IsStamp(token) == \E n \in 1..MaxStamp : Stamp(n) = token

StampValue(token) == CHOOSE n \in 1..MaxStamp : Stamp(n) = token

\* item.content as rendered by inference for an item of the given type
StoreEntries(itemType) ==
  IF itemType = "activity"
  THEN { << "-", Stamp(n), "did" >> : n \in 1..MaxStamp }
  ELSE { << "- [ ]", "#" \o itemType, "item" >> }

\* the document a tracker can hold before the appends
StoreDocs ==
  { InitialFiles["proj"],
    InitialFiles["inbox"],
    << << "# Doc" >>, Blank, ReferencesHeader, Blank, << "-", "ref" >>, Blank >>,
    << << "# Doc" >>, Blank, ActionHeader, << "- [ ]", "#task", "old" >>, Blank >>,
    << << "# Doc" >>, Blank, ActionHeader, << "## Notes" >>, Blank >>,
    << Fence, << "tag:", "proj" >>, << "# note" >>,
       << "iterationStarted:", "2025-01-15" >>, Fence,
       << "# Doc" >>, Blank, ActionHeader, Blank >> }

\* a loaded tracker, and a registered one whose document did not load
StoreTags == { "proj", "inbox" }

InitStore ==
  /\ initialized = TRUE
  /\ initRejected = FALSE
  /\ trackers = << "proj" >>
  /\ \E doc \in StoreDocs : files = [ InitialFiles EXCEPT !["proj"] = doc ]
  /\ pc = "idle"
  /\ input = NoInput
  /\ inference = NoInference
  /\ inferStatus = "none"
  /\ idx = 1
  /\ itemResults = << >>
  /\ attempts = << >>
  /\ result = NoResult
  /\ thrown = Undef
  /\ serviceReply = NoReply
  /\ call = NoCall
  /\ cache = [ t \in RegistryTags |->
               IF t = "proj" THEN matterContent(files[t]) ELSE << >> ]
  /\ batch = NoBatch
  /\ writers = NoWriters
  /\ inits = NoInits

\* one call of an append method, as capture()'s placement loop dispatches it
StoreCall(op, itemType, tag, entry, body, io) ==
  /\ idx <= MaxAppends
  /\ Loaded(tag) \/ io = "ok"
  /\ filesAfterAppend(tag, body, io)
  /\ call' = [ op |-> op, itemType |-> itemType, tag |-> tag, entry |-> entry,
               before |-> files[tag], returned |-> appendReturns(tag, io) ]
  /\ idx' = idx + 1
  /\ UNCHANGED << aux, cache, initialized, initRejected, trackers, pc, input, inference,
                  inferStatus, itemResults, attempts, result, thrown,
                  serviceReply >>

\* trackerManager.appendToTracker(item.tracker, item.content)
AppendToTracker ==
  \E itemType \in ItemTypes \ { "activity" }, tag \in StoreTags,
     io \in AppendOutcomes :
    \E entry \in StoreEntries(itemType) :
      StoreCall("appendToTracker", itemType, tag, entry,
                appendToTrackerFile(files[tag], entry), io)

\* trackerManager.appendActivityToTracker(item.tracker, item.content)
AppendActivityToTracker ==
  \E tag \in StoreTags, io \in AppendOutcomes :
    \E entry \in StoreEntries("activity") :
      StoreCall("appendActivityToTracker", "activity", tag, entry,
                appendActivityToTrackerFile(files[tag], entry), io)

NextStore == AppendToTracker \/ AppendActivityToTracker

SpecStore == InitStore /\ [][NextStore]_vars

(***************** overlapping captures on one TrackerManager **************)
\* Two capture requests in flight each reach their placement loop; every
\* append suspends at `await fs.readFile` and again at `await fs.writeFile`,
\* so the appends of different captures interleave between the two.
RaceTags == { "proj", "inbox" }

\* item.content of the capture whose append is the i-th to start
RaceEntry(i) == << "- [ ]", "#task", "capture", ToString(i) >>

InitRace ==
  /\ initialized = TRUE
  /\ initRejected = FALSE
  /\ trackers = << "proj", "inbox" >>
  /\ files = InitialFiles
  /\ pc = "idle"
  /\ input = NoInput
  /\ inference = NoInference
  /\ inferStatus = "none"
  /\ idx = 1
  /\ itemResults = << >>
  /\ attempts = << >>
  /\ result = NoResult
  /\ thrown = Undef
  /\ serviceReply = NoReply
  /\ call = NoCall
  /\ cache = [ t \in RegistryTags |->
               IF t \in RaceTags THEN matterContent(files[t]) ELSE << >> ]
  /\ batch = NoBatch
  /\ writers = NoWriters
  /\ inits = NoInits

\* appendToTracker up to `await fs.readFile(tracker.filePath)`: the call
\* holds the content it read while it is suspended
AppendRead ==
  /\ Len(writers) < MaxWriters
  /\ \E tag \in RaceTags :
       /\ Loaded(tag)
       /\ writers' = Append(writers,
            [ tag |-> tag, entry |-> RaceEntry(Len(writers) + 1),
              read |-> files[tag], state |-> "read", returned |-> FALSE ])
  /\ UNCHANGED << batch, inits, cache, initialized, initRejected, trackers, files,
                  pc, input, inference, inferStatus, idx, itemResults, attempts,
                  result, thrown, serviceReply, call >>

\* the rest of the same call: splice into the content it read,
\* matter.stringify, `await fs.writeFile`, return
AppendWrite ==
  \E w \in 1..Len(writers), io \in AppendOutcomes :
    /\ writers[w].state = "read"
    /\ filesAfterAppend(writers[w].tag,
                        appendToTrackerFile(writers[w].read, writers[w].entry), io)
    /\ writers' = [ writers EXCEPT
                      ![w].state = "returned",
                      ![w].returned = appendReturns(writers[w].tag, io) ]
    /\ UNCHANGED << batch, inits, cache, initialized, initRejected, trackers, pc,
                    input, inference, inferStatus, idx, itemResults, attempts,
                    result, thrown, serviceReply, call >>

NextRace == AppendRead \/ AppendWrite

SpecRace == InitRace /\ [][NextRace]_vars

(**************** overlapping calls of CaptureEngine.initialize ************)
\* the documents an initialization can load
InitLoadable == { {}, { "inbox" }, { "proj", "inbox" } }

\* initialize(), or the `await this.initialize()` of capture(), up to its
\* first suspension: returns at once when initialized is set, otherwise
\* starts trackerManager.initialize() and waits for it
InitEnter ==
  /\ Len(inits.attempts) < MaxInitCalls
  /\ LET k == Len(inits.attempts) + 1
     IN inits' = IF initialized
                 THEN [ inits EXCEPT !.attempts = Append(@, "skipped") ]
                 ELSE [ running |-> inits.running \cup { k },
                        attempts |-> Append(inits.attempts, "running") ]
  /\ UNCHANGED << batch, writers, cache, initialized, initRejected, trackers, files,
                  pc, input, inference, inferStatus, idx, itemResults, attempts,
                  result, thrown, serviceReply, call >>

\* trackerManager.initialize() of one waiting call settles: on success the
\* call sets initialized, on failure it rethrows and leaves the flag alone
InitSettle ==
  \E k \in inits.running, ok \in BOOLEAN, S \in InitLoadable :
    /\ ok \/ S = {}
    /\ inits' = [ running |-> inits.running \ { k },
                  attempts |-> [ inits.attempts EXCEPT
                                   ![k] = IF ok THEN "ok" ELSE "failed" ] ]
    /\ initialized' = (initialized \/ ok)
    /\ initRejected' = ~ok
    /\ trackers' = trackersAfterLoad(ok, S)
    /\ cache' = cacheAfterLoad(ok, S)
    /\ UNCHANGED << batch, writers, files, pc, input, inference, inferStatus, idx,
                    itemResults, attempts, result, thrown, serviceReply, call >>

NextInit == InitEnter \/ InitSettle

SpecInit == Init /\ [][NextInit]_vars

(********************* properties of the inference client ******************)
InferReturned == inferStatus \in { "ok", "fallback" }

RawReply == serviceReply.payload

\* C11: whenever the normalized confidence is strictly below the threshold,
\* the InferenceResult has requiresReview = true, whether the service said
\* false or said nothing.
C11_LowConfidenceForcesReview ==
  (InferReturned /\ LessThan(inference.confidence, confidenceThreshold)) =>
     inference.requiresReview = TRUE

C11_Witness ==
  /\ inferStatus = "ok"
  /\ RawReply.requiresReview = "false"
  /\ RawReply.confidence = Num(50)
  /\ inference.requiresReview = TRUE

\* C12 (as claimed): for every raw response, a confidence that is missing,
\* zero, negative, above 1 or not a number included, the confidence of the
\* InferenceResult is a number in [0, 1].
C12_ConfidenceInUnitInterval ==
  InferReturned =>
     /\ inference.confidence.k = "num"
     /\ inference.confidence.v >= 0
     /\ inference.confidence.v <= 100

\* C13: every generated item of every InferenceResult has an itemType among
\* action, activity, review, reference, someday and a priority among critical,
\* high, medium, low; a recognized value is kept, any other becomes review /
\* medium, and the item is kept in the list.
C13_ItemsValidated ==
  /\ InferReturned =>
       \A i \in 1..Len(inference.generatedItems) :
         /\ inference.generatedItems[i].itemType
              \in { "action", "activity", "review", "reference", "someday" }
         /\ inference.generatedItems[i].priority
              \in { "critical", "high", "medium", "low" }
  /\ (inferStatus = "ok" /\ RawReply.hasItems /\ RawReply.generatedItems # << >>) =>
       /\ Len(inference.generatedItems) = Len(RawReply.generatedItems)
       /\ \A i \in 1..Len(RawReply.generatedItems) :
            LET raw == RawReply.generatedItems[i]
                item == inference.generatedItems[i]
            IN /\ item.itemType =
                    IF raw.itemType \in { "action", "activity", "review",
                                          "reference", "someday" }
                    THEN raw.itemType ELSE "review"
               /\ item.priority =
                    IF raw.priority \in { "critical", "high", "medium", "low" }
                    THEN raw.priority ELSE "medium"

C13_Witness ==
  /\ inferStatus = "ok"
  /\ Len(RawReply.generatedItems) = 2
  /\ RawReply.generatedItems[1].itemType = "bogus"
  /\ RawReply.generatedItems[1].priority = Undef
  /\ RawReply.generatedItems[2].itemType = "activity"
  /\ RawReply.generatedItems[2].priority = "bogus"
  /\ inference.generatedItems[1].itemType = "review"
  /\ inference.generatedItems[2].priority = "medium"

\* C14: inferCapture never returns an empty generatedItems list; when the
\* service list is empty, missing or not an array the result has exactly one
\* item of type review and priority medium, targeted at the response's
\* primaryTracker (review when absent), whose content embeds the input text.
C14_ItemListNeverEmpty ==
  /\ InferReturned => Len(inference.generatedItems) >= 1
  /\ (inferStatus = "ok" /\ (~RawReply.hasItems \/ RawReply.generatedItems = << >>)) =>
       /\ Len(inference.generatedItems) = 1
       /\ inference.generatedItems[1].itemType = "review"
       /\ inference.generatedItems[1].priority = "medium"
       /\ inference.generatedItems[1].tracker =
            IF RawReply.primaryTracker = Undef THEN "review"
            ELSE RawReply.primaryTracker
       /\ Contains(inference.generatedItems[1].content, input.text)

C14_Witness ==
  /\ inferStatus = "ok"
  /\ ~RawReply.hasItems
  /\ RawReply.primaryTracker = Undef
  /\ input.text = << "b", "a" >>
  /\ Len(inference.generatedItems) = 1

C16_InferNeverThrows == inferStatus # "threw"

(********************* properties of the document store ********************)
ReviewQueueHeader == << "## Review Queue" >>

SomedayHeader == << "## Someday/Maybe" >>

NotesHeader == << "## Notes" >>

\* the canonical section order
CanonicalSections ==
  << ActivityHeader, ActionHeader, ReviewQueueHeader, ReferencesHeader,
     SomedayHeader, NotesHeader >>

Rank(header) == CHOOSE i \in 1..Len(CanonicalSections) : CanonicalSections[i] = header

IsHeader(line) == line \in SeqSet(CanonicalSections)

\* the section an item of the given type belongs to
SectionOf(itemType) ==
  CASE itemType = "activity" -> ActivityHeader
    [] itemType = "action" -> ActionHeader
    [] itemType = "review" -> ReviewQueueHeader
    [] itemType = "reference" -> ReferencesHeader
    [] itemType = "someday" -> SomedayHeader

\* the header of the section line p lies in (Blank before the first header)
HeaderAt(lines, p) ==
  LET hs == { i \in 1..p : IsHeader(lines[i]) }
  IN IF hs = {} THEN Blank
     ELSE lines[CHOOSE i \in hs : \A j \in hs : j <= i]

InCanonicalOrder(lines) ==
  \A i, j \in 1..Len(lines) :
    (i < j /\ IsHeader(lines[i]) /\ IsHeader(lines[j])) =>
       Rank(lines[i]) < Rank(lines[j])

IsActivityEntry(line) == Len(line) = 3 /\ IsStamp(line[2])

Called == call.op # "none"

\* C17 (as claimed): an append on an unknown tag, or one whose read or write
\* fails, returns false and leaves the document exactly as it was before
\* the call.
C17_FailedAppendLeavesFile ==
  (Called /\ ~call.returned) => files[call.tag] = call.before

\* C18 (as claimed): when the section an item belongs to is absent, a
\* successful append creates it at its canonical position, with exactly one
\* blank line before and one blank line after the new header.
C18_SectionCreatedInPlace ==
  (Called /\ call.returned
     /\ findSectionIndex(call.before, SectionOf(call.itemType)) = 0) =>
     LET after == files[call.tag]
         i == findSectionIndex(after, SectionOf(call.itemType))
     IN /\ i > 1 /\ i < Len(after)
        /\ after[i - 1] = Blank
        /\ i > 2 => after[i - 2] # Blank
        /\ after[i + 1] = Blank
        /\ i + 2 <= Len(after) => after[i + 2] # Blank
        /\ InCanonicalOrder(after)

\* C19 (as claimed): after any sequence of activity appends, in any timestamp
\* order, the entries of the Activity Log section are in chronological
\* order, oldest first.
C19_ActivityLogChronological ==
  \A t \in RegistryTags :
    \A i, j \in 1..Len(files[t]) :
      ( /\ i < j
        /\ IsActivityEntry(files[t][i]) /\ IsActivityEntry(files[t][j])
        /\ HeaderAt(files[t], i) = ActivityHeader
        /\ HeaderAt(files[t], j) = ActivityHeader ) =>
         StampValue(files[t][i][2]) <= StampValue(files[t][j][2])

\* C20 (as claimed): after a successful append the item's content line lies
\* in the section implied by its type (activity: Activity Log, action:
\* Action Items, review: Review Queue, reference: References, someday:
\* Someday/Maybe) and in no other section.
C20_ItemInSectionOfItsType ==
  (Called /\ call.returned) =>
     LET after == files[call.tag]
         isNew == \A q \in 1..Len(call.before) : call.before[q] # call.entry
     IN /\ \E p \in 1..Len(after) :
             /\ after[p] = call.entry
             /\ HeaderAt(after, p) = SectionOf(call.itemType)
        /\ isNew =>
             \A p \in 1..Len(after) :
               after[p] = call.entry =>
                 HeaderAt(after, p) = SectionOf(call.itemType)

(************************ properties of captureBatch ***********************)
\* C21 (as claimed): a failure or exception while capturing inputs[i] (the
\* capture rejected, its inference threw, or it did not succeed) yields a
\* failed result with a populated error at index i.
C21_FailureYieldsFailedResult ==
  \A i \in 1..Len(batch.results) :
    ( \/ batch.outcomes[i].rejected
      \/ batch.outcomes[i].inferStatus = "threw"
      \/ ~batch.results[i].success ) =>
       /\ batch.results[i].success = FALSE
       /\ batch.results[i].error # Undef

\* C21 (amended): captureBatch runs the captures one after another and
\* returns one result per input, in input order: results[i] is what
\* capture(inputs[i]) resolved to, or, only when that capture rejected, a
\* failed result carrying the exception's message and the input text; the
\* other entries are the other captures' own results.
C21_BatchKeepsOrder ==
  /\ Len(batch.results) = batch.k - 1
  /\ Len(batch.outcomes) = batch.k - 1
  /\ batch.k <= Len(batch.inputs) + 1
  /\ pc = "batchdone" => Len(batch.results) = Len(batch.inputs)
  /\ pc \in { "infer", "place", "review", "emergency", "done", "threw" } =>
       /\ batch.k <= Len(batch.inputs)
       /\ input = batch.inputs[batch.k]
  /\ \A i \in 1..Len(batch.results) :
       /\ batch.outcomes[i].input = batch.inputs[i]
       /\ IF batch.outcomes[i].rejected
          THEN /\ batch.results[i].success = FALSE
               /\ batch.results[i].error = InitErrorMessage
               /\ batch.results[i].primaryTracker = "none"
               /\ batch.results[i].requiresReview = TRUE
               /\ Len(batch.results[i].itemResults) = 1
               /\ batch.results[i].itemResults[1].formattedEntry = batch.inputs[i].text
               /\ batch.results[i].itemResults[1].error = InitErrorMessage
          ELSE batch.results[i] = batch.outcomes[i].result

C21_Witness ==
  /\ pc = "batchdone"
  /\ Len(batch.inputs) = 2
  /\ batch.inputs[1].text # batch.inputs[2].text
  /\ batch.outcomes[1].rejected
  /\ ~batch.outcomes[2].rejected
  /\ batch.results[2].success

(********************* properties of tracker loading ***********************)
\* C22: after TrackerManager.initialize() or refresh() completes, the loaded
\* trackers are exactly the registry entries marked active whose document
\* could be read and parsed: an inactive entry is never loaded, a document
\* that fails to load is skipped, nothing loaded before survives unless it
\* is loaded again; the call rejects exactly when the registry is unreadable.
C22_LoadedAreActiveAndReadable ==
  call.op \in { "initialize", "refresh" } =>
     /\ call.rejected = ~call.registryOk
     /\ ~call.rejected =>
          /\ SeqSet(trackers) =
               { call.crossref[i].tag :
                   i \in { j \in 1..Len(call.crossref) :
                             /\ call.crossref[j].active
                             /\ call.crossref[j].tag \in call.readable } }
          /\ \A i, j \in 1..Len(trackers) : i # j => trackers[i] # trackers[j]
          /\ \A t \in SeqSet(trackers) : cache[t] = files[t]

C22_Witness ==
  /\ call.op = "refresh"
  /\ ~call.rejected
  /\ "proj" \in SeqSet(call.before) /\ "proj" \notin SeqSet(trackers)
  /\ "proj" \notin ActiveTags(call.crossref) /\ "proj" \in call.readable
  /\ "inbox" \in ActiveTags(call.crossref) /\ "inbox" \notin call.readable
  /\ trackers = << "review" >>

C24_CaptureReachesOutcome == (input # NoInput /\ pc # "done") ~> (pc = "done")

\* C25 (as claimed): when the Action Items section exists, appendToTracker
\* inserts the new entry directly under that section's header, before any
\* existing entry of the section and before the next section header,
\* whatever follows the header.
C25_EntryDirectlyUnderHeader ==
  ( /\ call.op = "appendToTracker" /\ call.returned
    /\ findSectionIndex(call.before, ActionHeader) # 0 ) =>
     LET after == files[call.tag]
         i == findSectionIndex(after, ActionHeader)
     IN /\ i # 0
        /\ \E p \in (i + 1)..Len(after) :
             /\ after[p] = call.entry
             /\ \A q \in (i + 1)..(p - 1) : after[q] = Blank

\* the lines of a all occur in b, in the same relative order
RECURSIVE IsSubsequence(_, _)
IsSubsequence(a, b) ==
  IF a = << >> THEN TRUE
  ELSE IF b = << >> THEN FALSE
  ELSE IF Head(a) = Head(b) THEN IsSubsequence(Tail(a), Tail(b))
  ELSE IsSubsequence(a, Tail(b))

\* C26 (as claimed): a successful append changes the tracker document only
\* by inserting lines: every line that existed before the call, of the body
\* and of the metadata block, is still present afterwards in the same
\* relative order, and the metadata block is unchanged.
C26_AppendOnlyInserts ==
  (Called /\ call.returned) =>
     /\ IsSubsequence(call.before, files[call.tag])
     /\ hasMatter(call.before) =>
          /\ hasMatter(files[call.tag])
          /\ SubSeq(files[call.tag], 1, matterEnd(files[call.tag]))
               = SubSeq(call.before, 1, matterEnd(call.before))

\* C26 (amended): a successful append keeps every body line that existed
\* before the call, in the same relative order, and keeps every key and
\* value of the metadata block; the block itself is written again from the
\* parsed data, so its text can differ (a comment is dropped, a plain date
\* comes back as a full timestamp).
C26_AppendKeepsBodyAndData ==
  (Called /\ call.returned) =>
     /\ IsSubsequence(matterContent(call.before), matterContent(files[call.tag]))
     /\ matterData(files[call.tag]) = matterData(call.before)
     /\ \E p \in 1..Len(files[call.tag]) : files[call.tag][p] = call.entry

C26_Witness ==
  /\ Called /\ call.returned
  /\ hasMatter(call.before)
  /\ Len(matterData(call.before)) = 2
  /\ SubSeq(files[call.tag], 1, matterEnd(files[call.tag]))
       # SubSeq(call.before, 1, matterEnd(call.before))
  /\ Len(matterContent(files[call.tag])) > Len(matterContent(call.before))

\* C27 (as claimed): after an append to a tracker returns true, the content
\* the store holds in memory for that tracker, from which getTracker and
\* getContextMap answer, equals what was written to the tracker's file.
C27_MemoryReflectsAppend ==
  (Called /\ call.returned) => cache[call.tag] = matterContent(files[call.tag])

\* C30 (as claimed): a service confidence that is already a number in
\* [0, 1], exactly 0 included, is the confidence of the InferenceResult.
C30_ConfidenceReportedUnchanged ==
  ( /\ inferStatus = "ok"
    /\ RawReply.confidence.k = "num"
    /\ RawReply.confidence.v >= 0 /\ RawReply.confidence.v <= 100 ) =>
     inference.confidence = RawReply.confidence

(******************* properties of overlapping calls ***********************)
\* the entry is a line of the document
HasLine(lines, entry) == \E p \in 1..Len(lines) : lines[p] = entry

\* C28 (as claimed): when overlapping captures each append successfully to
\* the same tracker, the tracker's file afterwards contains both entries.
C28_NoLostUpdate ==
  \A v, w \in 1..Len(writers) :
    ( /\ v # w
      /\ writers[v].returned /\ writers[w].returned
      /\ writers[v].tag = writers[w].tag ) =>
       /\ HasLine(files[writers[v].tag], writers[v].entry)
       /\ HasLine(files[writers[w].tag], writers[w].entry)

\* C29 (as claimed): a call starts tracker loading only if every earlier
\* call that started it has failed, calls made while an earlier
\* initialization is still in progress included.
C29_LoadStartedOnlyAfterFailures ==
  \A j, k \in 1..Len(inits.attempts) :
    ( /\ j < k
      /\ inits.attempts[k] # "skipped"
      /\ inits.attempts[j] # "skipped" ) =>
       inits.attempts[j] = "failed"

====
